---- MODULE Spec2Model ----
(***************************************************************************)
(* Judgment service (packages/judgment): the training consolidator, the    *)
(* judgment encoder, the extractor and the core-memory version store.      *)
(*                                                                         *)
(* Python values are modelled as follows.                                  *)
(*   dict      a TLA+ record; a key the dict lacks is a field the record   *)
(*             lacks, so dict.get(k, default) is Get(d, k, default)        *)
(*   list      a sequence                                                  *)
(*   object    lists of pattern dicts hold references into `heap`, so that *)
(*             list(existing) is a shallow copy that shares its elements   *)
(*   float     confidences are counted in hundredths (0.5 is 50)           *)
(*   str       a string; a description that grows by concatenation is the  *)
(*             sequence of its pieces                                      *)
(* Pattern dicts keep the keys the merge reads or writes (id, name,        *)
(* description, confidence); responseGuidance and domains are carried      *)
(* along untouched by every operation and are left out.                    *)
(***************************************************************************)
EXTENDS Integers, Sequences, FiniteSets, TLC

VARIABLES
    heap,               \* consolidator call: reference -> pattern dict
    existing_judgment,  \* consolidator call: argument existing_judgment
    new_extraction,     \* consolidator call: argument new_extraction
    result,             \* consolidator call: <<>>, then <<the returned dict>>
    encoder_merged,     \* encoder merge on the same arguments: <<>>, then <<the merge>>
    contradiction_calls, \* the arguments of each _find_unresolved_contradictions call
    note_call,          \* a generate_morning_note call: <<>>, then <<arguments and note>>
    core_memory,        \* table core_memory: the rows in insertion order
    semantic_memory,    \* table semantic_memory: the rows in insertion order
    clock,              \* the last value datetime.now() returned (0: not read yet)
    sessions,           \* process_session calls: session -> its position and locals
    direct_writes,      \* the judgment_json of each CoreMemory.write call made through the API
    api_ret,            \* what the last CoreMemory call made through the API returned
    nightly             \* the /consolidation/run request: its position and locals

consolidate_vars == <<heap, existing_judgment, new_extraction, result, encoder_merged, contradiction_calls, note_call>>
service_vars == <<core_memory, semantic_memory, clock, sessions, direct_writes, api_ret>>
vars == <<heap, existing_judgment, new_extraction, result, encoder_merged,
          contradiction_calls, note_call, core_memory, semantic_memory, clock, sessions, direct_writes, api_ret,
          nightly>>

----------------------------------------------------------------------------
(* Bounds of the model *)

\* entries (patterns + constraints + triggers) of an existing judgment
MaxExisting == 2
\* entries (patterns + constraints + triggers) of one extraction
MaxDraft == 2
\* sentences of a training transcript
MaxSentences == 2
\* CoreMemory.write calls made through the API
MaxDirectWrites == 3
\* episodic_memory rows of the trailing 24 hours
MaxEpisodes == 2
\* the greatest count a telemetry query returns
MaxCount == 10
\* the greatest patterns_found handed to generate_morning_note
MaxPatternsFound == 2

----------------------------------------------------------------------------
(* Generic helpers *)

\* an Optional value is <<>> (None) or <<v>>
None == <<>>
NoResult == <<>>

Min(a, b) == IF a <= b THEN a ELSE b

SeqUpTo(S, n) == UNION {[1..k -> S] : k \in 0..n}

Range(s) == {s[i] : i \in DOMAIN s}

\* dict.get(key, default)
Get(d, key, default) == IF key \in DOMAIN d THEN d[key] ELSE default

\* d[key] = value on a dict that may lack the key
SetItem(d, key, value) ==
    [k \in DOMAIN d \cup {key} |-> IF k = key THEN value ELSE d[k]]

\* a dict whose key order matters is [keys |-> its keys in insertion order,
\* items |-> key -> value]
EmptyDict == [keys |-> <<>>, items |-> <<>>]

\* str.lower() on the strings of the model
Lower(s) ==
    CASE s = "Foo" -> "foo"
      [] s = "FOO" -> "foo"
      [] s = "Bar" -> "bar"
      [] s = "Never X" -> "never x"
      [] s = "Stop Y" -> "stop y"
      [] s = "Call Me" -> "call me"
      [] s = "Pause Z" -> "pause z"
      [] OTHER -> s

----------------------------------------------------------------------------
(* Confidence maps *)

\* the map JudgmentExtractor._extract_confidence_map returns
DefaultConfidenceMap ==
    << [min |-> 0, max |-> 30, action |-> "escalate"],
       [min |-> 30, max |-> 60, action |-> "slow_down"],
       [min |-> 60, max |-> 100, action |-> "act"] >>

\* a map an earlier training left in the profile
TrainedConfidenceMap ==
    << [min |-> 0, max |-> 50, action |-> "escalate"],
       [min |-> 50, max |-> 100, action |-> "act"] >>

----------------------------------------------------------------------------
(* TrainingConsolidator (training/consolidator.py) *)

DefaultConfidence == 50
DeepenStep == 10
ConfidenceCap == 100

\* an index keyed by the names as written, without .lower(), which
\* C5_MatchByNameNotId tells from the code
ExistingNamesCaseSensitive(existing, h) ==
    [n \in {h[existing[i]].name : i \in DOMAIN existing} |->
        CHOOSE i \in DOMAIN existing :
            /\ h[existing[i]].name = n
            /\ \A j \in DOMAIN existing : h[existing[j]].name = n => j <= i]

\* the dict comprehension {p.get("name").lower(): i for i, p in enumerate(existing)}:
\* a later entry with the same key overwrites an earlier one
ExistingNames(existing, h) ==
    [n \in {Lower(h[existing[i]].name) : i \in DOMAIN existing} |->
        CHOOSE i \in DOMAIN existing :
            /\ Lower(h[existing[i]].name) = n
            /\ \A j \in DOMAIN existing :
                  Lower(h[existing[j]].name) = n => j <= i]

\* a deepening without the min(1.0, ...) cap, which C4_Deepening tells from
\* the code
DeepenPatternUncapped(p_old, p_new) ==
    SetItem([p_old EXCEPT !.description =
                 @ \o <<"\nDeepened: ">> \o p_new.description],
            "confidence",
            Get(p_old, "confidence", DefaultConfidence) + DeepenStep)

\* a deepening that starts from 0.5 whatever the old confidence is, which
\* C27_ConfidenceInRange tells from the code
DeepenPatternFromDefault(p_old, p_new) ==
    SetItem([p_old EXCEPT !.description =
                 @ \o <<"\nDeepened: ">> \o p_new.description],
            "confidence",
            Min(ConfidenceCap, DefaultConfidence + DeepenStep))

\* the "Deepen existing pattern" branch: p_old is mutated in place
DeepenPattern(p_old, p_new) ==
    SetItem([p_old EXCEPT !.description =
                 @ \o <<"\nDeepened: ">> \o p_new.description],
            "confidence",
            Min(ConfidenceCap, Get(p_old, "confidence", DefaultConfidence) + DeepenStep))

\* the for loop of _consolidate_patterns from draft entry k on; it yields the
\* list `merged` and the heap as the loop leaves it
RECURSIVE ConsolidatePatternsLoop(_, _, _, _, _)
ConsolidatePatternsLoop(merged, h, existing_names, new, k) ==
    IF k > Len(new) THEN [merged |-> merged, heap |-> h]
    ELSE LET p_new == h[new[k]]
             name_lower == Lower(p_new.name)
         IN  IF name_lower \in DOMAIN existing_names
             THEN LET idx == existing_names[name_lower]
                      ref == merged[idx]
                  IN  ConsolidatePatternsLoop(
                          merged,
                          [h EXCEPT ![ref] = DeepenPattern(h[ref], p_new)],
                          existing_names, new, k + 1)
             ELSE ConsolidatePatternsLoop(
                      Append(merged, new[k]), h, existing_names, new, k + 1)

ConsolidatePatterns(existing, new, h) ==
    ConsolidatePatternsLoop(existing, h, ExistingNames(existing, h), new, 1)

RECURSIVE ConsolidateConstraintsLoop(_, _, _, _)
ConsolidateConstraintsLoop(merged, existing_rules, new, k) ==
    IF k > Len(new) THEN merged
    ELSE IF Lower(new[k].rule) \notin existing_rules
         THEN ConsolidateConstraintsLoop(Append(merged, new[k]), existing_rules, new, k + 1)
         ELSE ConsolidateConstraintsLoop(merged, existing_rules, new, k + 1)

\* a merge that appends every draft constraint, which C8_IdempotentMerge
\* tells from the code
ConsolidateConstraintsAppendAll(existing, new) == existing \o new

ConsolidateConstraints(existing, new) ==
    ConsolidateConstraintsLoop(
        existing, {Lower(existing[i].rule) : i \in DOMAIN existing}, new, 1)

RECURSIVE ConsolidateTriggersLoop(_, _, _, _)
ConsolidateTriggersLoop(merged, existing_desc, new, k) ==
    IF k > Len(new) THEN merged
    ELSE IF Lower(new[k].description) \notin existing_desc
         THEN ConsolidateTriggersLoop(Append(merged, new[k]), existing_desc, new, k + 1)
         ELSE ConsolidateTriggersLoop(merged, existing_desc, new, k + 1)

ConsolidateTriggers(existing, new) ==
    ConsolidateTriggersLoop(
        existing, {Lower(existing[i].description) : i \in DOMAIN existing}, new, 1)

\* a merge that prefers the existing map, which C10_ConfidenceMapOverride
\* tells from the code
ConsolidateConfidenceMapKeepExisting(existing, new) ==
    Get(existing, "confidence_map", Get(new, "confidence_map", <<>>))

\* new_extraction.get("confidence_map", existing_judgment.get("confidence_map", []))
ConsolidateConfidenceMap(existing, new) ==
    Get(new, "confidence_map", Get(existing, "confidence_map", <<>>))

\* a detection that flags every constraint, which C12_ContradictionDetection
\* tells from the code
FindUnresolvedContradictionsFlagAll(patterns, constraints) ==
    [i \in DOMAIN constraints |-> [constraint |-> constraints[i].id]]

FindUnresolvedContradictions(patterns, constraints) == <<>>

\* TrainingConsolidator.consolidate: the returned dict and the heap after the call
ConsolidateCall(existing, new, h) ==
    LET pats == ConsolidatePatterns(
                    Get(existing, "patterns", <<>>), Get(new, "patterns", <<>>), h)
        cons == ConsolidateConstraints(
                    Get(existing, "hard_constraints", <<>>), Get(new, "constraints", <<>>))
        trgs == ConsolidateTriggers(
                    Get(existing, "escalation_triggers", <<>>), Get(new, "triggers", <<>>))
    IN  [ret |-> [patterns |-> pats.merged,
                  hard_constraints |-> cons,
                  escalation_triggers |-> trgs,
                  confidence_map |-> ConsolidateConfidenceMap(existing, new),
                  review_required |-> FindUnresolvedContradictions(pats.merged, cons)],
         heap |-> pats.heap,
         contradiction_call |-> [patterns |-> pats.merged, constraints |-> cons]]

Consolidate ==
    /\ result = NoResult
    /\ LET call == ConsolidateCall(existing_judgment, new_extraction, heap)
       IN  /\ result' = <<call.ret>>
           /\ heap' = call.heap
           /\ contradiction_calls' = Append(contradiction_calls, call.contradiction_call)
    /\ UNCHANGED <<existing_judgment, new_extraction, encoder_merged, note_call>>
    /\ UNCHANGED service_vars
    /\ UNCHANGED nightly

----------------------------------------------------------------------------
(* JudgmentEncoder merges (training/encoder.py) *)

RECURSIVE MergePatternsLoop(_, _, _, _)
MergePatternsLoop(merged_list, existing_ids, new, k) ==
    IF k > Len(new) THEN merged_list
    ELSE IF new[k].id \notin existing_ids
         THEN MergePatternsLoop(Append(merged_list, new[k]), existing_ids, new, k + 1)
         ELSE MergePatternsLoop(merged_list, existing_ids, new, k + 1)

\* a merge that puts the new patterns first, which C6_MergeKeepsExisting
\* tells from the code
MergePatternsNewFirst(existing, new) ==
    MergePatternsLoop(<<>>, {existing[i].id : i \in DOMAIN existing}, new, 1) \o existing

\* a merge that appends every new pattern, which C28_ResubmissionAddsNothing
\* tells from the code
MergePatternsAppendAll(existing, new) == existing \o new

MergePatterns(existing, new) ==
    MergePatternsLoop(existing, {existing[i].id : i \in DOMAIN existing}, new, 1)

RECURSIVE MergeConstraintsLoop(_, _, _, _)
MergeConstraintsLoop(merged_list, existing_ids, new, k) ==
    IF k > Len(new) THEN merged_list
    ELSE IF new[k].id \notin existing_ids
         THEN MergeConstraintsLoop(Append(merged_list, new[k]), existing_ids, new, k + 1)
         ELSE MergeConstraintsLoop(merged_list, existing_ids, new, k + 1)

MergeConstraints(existing, new) ==
    MergeConstraintsLoop(existing, {existing[i].id : i \in DOMAIN existing}, new, 1)

RECURSIVE MergeTriggersLoop(_, _, _, _)
MergeTriggersLoop(merged_list, existing_ids, new, k) ==
    IF k > Len(new) THEN merged_list
    ELSE IF new[k].id \notin existing_ids
         THEN MergeTriggersLoop(Append(merged_list, new[k]), existing_ids, new, k + 1)
         ELSE MergeTriggersLoop(merged_list, existing_ids, new, k + 1)

MergeTriggers(existing, new) ==
    MergeTriggersLoop(existing, {existing[i].id : i \in DOMAIN existing}, new, 1)

\* extraction.get("confidence_map", existing.get("confidence_map", []))
EncodeConfidenceMap(existing, extraction) ==
    Get(extraction, "confidence_map", Get(existing, "confidence_map", <<>>))

\* JudgmentEncoder.encode between the load and the write: `existing` is what
\* core_memory.load returned (None, or <<the row dict>>)
EncodeMerge(existing, extraction) ==
    IF existing # None
    THEN [patterns |-> MergePatterns(
                           Get(Get(existing[1], "judgment_json", EmptyDict).items,
                               "patterns", <<>>),
                           extraction.patterns),
          constraints |-> MergeConstraints(
                           Get(existing[1], "hard_constraints", <<>>),
                           extraction.constraints),
          triggers |-> MergeTriggers(
                           Get(existing[1], "escalation_triggers", <<>>),
                           extraction.triggers),
          confidence_map |-> EncodeConfidenceMap(existing[1], extraction)]
    ELSE [patterns |-> extraction.patterns,
          constraints |-> extraction.constraints,
          triggers |-> extraction.triggers,
          confidence_map |-> Get(extraction, "confidence_map", <<>>)]

Deref(refs, h) == [i \in DOMAIN refs |-> h[refs[i]]]

\* the arguments of the consolidator call as the encoder sees them: the
\* existing judgment as a loaded core_memory row, the extraction by value
ExistingRow ==
    [judgment_json |-> [keys |-> <<"patterns">>,
                        items |-> [patterns |-> Deref(existing_judgment.patterns, heap)]],
     hard_constraints |-> existing_judgment.hard_constraints,
     escalation_triggers |-> existing_judgment.escalation_triggers,
     confidence_map |-> Get(existing_judgment, "confidence_map", <<>>)]

ExtractionByValue ==
    [new_extraction EXCEPT !.patterns = Deref(new_extraction.patterns, heap)]

\* the arguments describe an agent without a profile
Untrained ==
    /\ existing_judgment.patterns = <<>>
    /\ existing_judgment.hard_constraints = <<>>
    /\ existing_judgment.escalation_triggers = <<>>
    /\ "confidence_map" \notin DOMAIN existing_judgment

\* the encoder's merge applied to the arguments, before the consolidator
\* touches them: core_memory.load returned the existing profile
EncoderMerge ==
    /\ encoder_merged = NoResult
    /\ result = NoResult
    /\ ~Untrained
    /\ encoder_merged' = <<EncodeMerge(<<ExistingRow>>, ExtractionByValue)>>
    /\ UNCHANGED <<heap, existing_judgment, new_extraction, result, contradiction_calls, note_call>>
    /\ UNCHANGED service_vars
    /\ UNCHANGED nightly

\* the encoder's first training: core_memory.load returned None
EncoderFirstTraining ==
    /\ encoder_merged = NoResult
    /\ result = NoResult
    /\ Untrained
    /\ encoder_merged' = <<EncodeMerge(None, ExtractionByValue)>>
    /\ UNCHANGED <<heap, existing_judgment, new_extraction, result, contradiction_calls, note_call>>
    /\ UNCHANGED service_vars
    /\ UNCHANGED nightly

----------------------------------------------------------------------------
(* JudgmentExtractor (training/extractor.py) *)

\* hashlib digests cut to a prefix: distinct texts get distinct digests
Sha256Hex16(text) == <<"sha256", text>>
Md5Hex8(text) == <<"md5", text>>
\* the empty string where a digest is expected
NoDigest == <<"", <<>>>>

\* one sentence per indicator list; none matches an indicator of another list
PatternSentence == "We always check the logs"
ConstraintSentence == "Never share the keys"
TriggerSentence == "Escalate to me early"
Sentences == {PatternSentence, ConstraintSentence, TriggerSentence}

\* re.search(indicator, sentence, re.IGNORECASE) for some indicator of the list
MatchesPatternIndicator(sentence) == sentence = PatternSentence
MatchesConstraintIndicator(sentence) == sentence = ConstraintSentence
MatchesTriggerIndicator(sentence) == sentence = TriggerSentence

\* "never" in sentence.lower()
ContainsNever(sentence) == sentence = ConstraintSentence

\* f"Pattern from training (line {i + 1})", i the 0-based index of the sentence
PatternName(line) ==
    << "Pattern from training (line 1)", "Pattern from training (line 2)",
       "Pattern from training (line 3)", "Pattern from training (line 4)" >>[line]

\* a transcript is the list re.split(r"[.!?]+", transcript) yields, without
\* the empty piece after the last full stop; sentences are shorter than the
\* [:200] and [:100] cuts
LineNumbers(transcript) == [i \in 1..Len(transcript) |-> i]

ExtractPatterns(transcript) ==
    LET at == SelectSeq(LineNumbers(transcript),
                        LAMBDA i : MatchesPatternIndicator(transcript[i]))
    IN  [k \in DOMAIN at |->
            [id |-> <<"pat_", Md5Hex8(transcript[at[k]])>>,
             name |-> PatternName(at[k]),
             description |-> <<transcript[at[k]]>>,
             confidence |-> DefaultConfidence]]

ExtractConstraints(transcript) ==
    LET at == SelectSeq(LineNumbers(transcript),
                        LAMBDA i : MatchesConstraintIndicator(transcript[i]))
    IN  [k \in DOMAIN at |->
            [id |-> <<"con_", Md5Hex8(transcript[at[k]])>>,
             description |-> transcript[at[k]],
             rule |-> transcript[at[k]],
             category |-> "operational",
             critical |-> ContainsNever(transcript[at[k]])]]

ExtractTriggers(transcript) ==
    LET at == SelectSeq(LineNumbers(transcript),
                        LAMBDA i : MatchesTriggerIndicator(transcript[i]))
    IN  [k \in DOMAIN at |->
            [id |-> <<"trg_", Md5Hex8(transcript[at[k]])>>,
             description |-> transcript[at[k]],
             action |-> "escalate"]]

ExtractConfidenceMap(transcript) == DefaultConfidenceMap

Extract(transcript) ==
    [patterns |-> ExtractPatterns(transcript),
     constraints |-> ExtractConstraints(transcript),
     triggers |-> ExtractTriggers(transcript),
     confidence_map |-> ExtractConfidenceMap(transcript),
     raw_transcript_hash |-> Sha256Hex16(transcript)]

----------------------------------------------------------------------------
(* CoreMemory (memory/core.py) *)

\* the keys of the model in the order sorted() gives them
KeyOrder ==
    <<"confidence", "constraints", "judgment", "patterns",
      "source_transcript_hash", "triggers">>

\* keys left in insertion order, which C15_HashIgnoresKeyOrder tells from the
\* code
SortedKeysAsInserted(keys) == keys

SortedKeys(keys) == SelectSeq(KeyOrder, LAMBDA k : k \in Range(keys))

\* json.dumps(d, sort_keys=...): the key/value pairs in the order written
JsonDumps(d, sort_keys) ==
    LET ks == IF sort_keys THEN SortedKeys(d.keys) ELSE d.keys
    IN  [i \in DOMAIN ks |-> <<ks[i], d.items[ks[i]]>>]

\* a value stored in a jsonb column and read back with json.loads: jsonb keeps
\* the pairs and orders the keys by length, then bytewise
JsonbRoundTrip(d) ==
    [keys |-> SelectSeq(<<"patterns", "source_transcript_hash">>,
                        LAMBDA k : k \in Range(d.keys)),
     items |-> d.items]

\* a hash of the dump without sort_keys, which C1_WriteDeterministic tells
\* from the code
VersionHashUnsorted(judgment_json, hard_constraints, escalation_triggers, confidence_map) ==
    Sha256Hex16(JsonDumps(
        [keys |-> <<"judgment", "constraints", "triggers", "confidence">>,
         items |-> [judgment |-> JsonDumps(judgment_json, FALSE),
                    constraints |-> hard_constraints,
                    triggers |-> escalation_triggers,
                    confidence |-> confidence_map]],
        FALSE))

\* version_hash = sha256(json.dumps({...}, sort_keys=True))[:16]
VersionHash(judgment_json, hard_constraints, escalation_triggers, confidence_map) ==
    Sha256Hex16(JsonDumps(
        [keys |-> <<"judgment", "constraints", "triggers", "confidence">>,
         items |-> [judgment |-> JsonDumps(judgment_json, TRUE),
                    constraints |-> hard_constraints,
                    triggers |-> escalation_triggers,
                    confidence |-> confidence_map]],
        TRUE))

\* a write that locks the record one tick after creating it, which
\* C17_LockedAtCreation tells from the code
WriteValuesLockedLater(agent_id, expert_id, judgment_json, hard_constraints, escalation_triggers, confidence_map, now) ==
    [agent_id |-> agent_id,
     expert_id |-> expert_id,
     training_version |->
         VersionHash(judgment_json, hard_constraints, escalation_triggers, confidence_map),
     judgment_json |-> JsonbRoundTrip(judgment_json),
     hard_constraints |-> hard_constraints,
     escalation_triggers |-> escalation_triggers,
     confidence_map |-> confidence_map,
     created_at |-> now,
     locked_at |-> now + 1]

\* CoreMemory.write up to its await: the values handed to the INSERT
WriteValues(agent_id, expert_id, judgment_json, hard_constraints, escalation_triggers, confidence_map, now) ==
    [agent_id |-> agent_id,
     expert_id |-> expert_id,
     training_version |->
         VersionHash(judgment_json, hard_constraints, escalation_triggers, confidence_map),
     judgment_json |-> JsonbRoundTrip(judgment_json),
     hard_constraints |-> hard_constraints,
     escalation_triggers |-> escalation_triggers,
     confidence_map |-> confidence_map,
     created_at |-> now,
     locked_at |-> now]

\* an upsert that replaces the agent's latest row, which C2_AppendOnly tells
\* from the code
InsertRowUpsert(table, values) ==
    IF \E i \in DOMAIN table : table[i].agent_id = values.agent_id
    THEN LET i == CHOOSE k \in DOMAIN table : table[k].agent_id = values.agent_id
         IN  [table EXCEPT ![i] = SetItem(values, "id", i)]
    ELSE Append(table, SetItem(values, "id", Len(table) + 1))

\* INSERT INTO core_memory: a new row, with the id the table gives it
InsertRow(table, values) == Append(table, SetItem(values, "id", Len(table) + 1))

\* the query with ORDER BY created_at ASC, which C16_LoadReturnsLatest tells
\* from the code
EarliestRows(table, agent_id) ==
    {i \in DOMAIN table :
        /\ table[i].agent_id = agent_id
        /\ \A j \in DOMAIN table :
              table[j].agent_id = agent_id => table[i].created_at <= table[j].created_at}

\* the query without WHERE agent_id = $1, which C24_LostUpdate tells from the
\* code
LatestRowsOfAnyAgent(table, agent_id) ==
    {i \in DOMAIN table : \A j \in DOMAIN table : table[j].created_at <= table[i].created_at}

\* SELECT ... WHERE agent_id = $1 ORDER BY created_at DESC LIMIT 1: the rows
\* the query may return (any one of those with the greatest created_at)
LatestRows(table, agent_id) ==
    {i \in DOMAIN table :
        /\ table[i].agent_id = agent_id
        /\ \A j \in DOMAIN table :
              table[j].agent_id = agent_id => table[j].created_at <= table[i].created_at}

\* what CoreMemory.load may return: None or the row as a dict
LoadResults(table, agent_id) ==
    IF LatestRows(table, agent_id) = {} THEN {None}
    ELSE {<<table[i]>> : i \in LatestRows(table, agent_id)}

\* what CoreMemory.get_version may return
GetVersionResults(table, agent_id) ==
    IF LatestRows(table, agent_id) = {} THEN {None}
    ELSE {<<table[i].training_version>> : i \in LatestRows(table, agent_id)}

----------------------------------------------------------------------------
(* JudgmentEncoder.encode and TrainingSessionHandler.process_session *)

Agents == {"agent_a", "agent_b"}
SessionIds == {"s1", "s2"}
ExpertId == "expert_1"

Transcripts == SeqUpTo(Sentences, MaxSentences)

\* api_ret when no CoreMemory call made through the API has just returned
NoCall == <<"none", "", <<>>>>

\* datetime.now(timezone.utc): the previous reading again, or a later one
Now(last) == {last + 1} \cup (IF last > 0 THEN {last} ELSE {})

IdleSession ==
    [pc |-> "idle", agent_id |-> "", text |-> <<>>, loaded |-> 0,
     pending |-> <<>>, version_hash |-> <<>>, calls |-> <<>>, audio |-> <<>>]

\* the session after a store call whose failure is retried once, which
\* C25_StorageFailurePropagates tells from the code
AfterStoreFailureRetried(session, call) ==
    IF call \in Range(session.calls)
    THEN [session EXCEPT !.pc = "failed", !.pending = <<>>,
                         !.calls = Append(@, call)]
    ELSE [session EXCEPT !.calls = Append(@, call)]

\* the session after db.fetch_one or db.execute raised inside the store call:
\* nothing catches the exception, process_session ends with it
AfterStoreFailure(session, call) ==
    [session EXCEPT !.pc = "failed", !.pending = <<>>, !.calls = Append(@, call)]

\* metadata without the version, which C29_IngestionOrder tells from the code
IndexMetadataUnversioned(expert_id, version_hash) ==
    [type |-> "training_transcript", expert_id |-> expert_id,
     training_version |-> NoDigest]

\* the metadata of the transcript's entry (session_date is left out)
IndexMetadata(expert_id, version_hash) ==
    [type |-> "training_transcript", expert_id |-> expert_id,
     training_version |-> version_hash]

\* the judgment_json dict encode builds
JudgmentJson(patterns, source_transcript_hash) ==
    [keys |-> <<"patterns", "source_transcript_hash">>,
     items |-> [patterns |-> patterns,
                source_transcript_hash |-> source_transcript_hash]]

\* encode from the return of core_memory.load to the await inside
\* core_memory.write: the merge, the judgment_json and the values to insert
EncodeValues(agent_id, expert_id, extraction, existing, now) ==
    LET m == EncodeMerge(existing, extraction)
    IN  WriteValues(agent_id, expert_id,
                    JudgmentJson(m.patterns, Get(extraction, "raw_transcript_hash", NoDigest)),
                    m.constraints, m.triggers, m.confidence_map, now)

\* process_session is called with a text transcript; it extracts and runs
\* up to the first await on the database, the load inside encode
ProcessSessionStart(s, agent_id, transcript) ==
    /\ sessions[s].pc = "idle"
    /\ sessions' = [sessions EXCEPT ![s] =
                       [@ EXCEPT !.pc = "load", !.agent_id = agent_id, !.text = transcript]]
    /\ api_ret' = NoCall
    /\ UNCHANGED <<core_memory, semantic_memory, clock, direct_writes>>
    /\ UNCHANGED consolidate_vars
    /\ UNCHANGED nightly

\* base64 strings sent as audio: a well-formed one, and one whose length is
\* not a multiple of four, on which base64.b64decode raises
WellFormedAudio == "UklGRg=="
MalformedAudio == "UklGRg"
Audios == {WellFormedAudio, MalformedAudio}

\* the texts Whisper returns for the decoded audio
WhisperTexts == {<<>>, <<ConstraintSentence>>}

\* the placeholder transcribe returns when no Whisper model is loaded, as the
\* sentences re.split yields; the last one carries len(audio_base64)
StubTranscript(audio_base64) ==
    <<"[STUB TRANSCRIPT] Audio transcription is not available",
      " Install openai-whisper to enable voice training sessions",
      IF audio_base64 = WellFormedAudio
      THEN " Received 8 characters of base64 audio"
      ELSE " Received 6 characters of base64 audio">>

\* what VoiceTranscriber.transcribe may do: return a text, or raise
\* ValueError (<<>>)
TranscribeResults(audio_base64, model_loaded) ==
    IF ~model_loaded THEN {<<StubTranscript(audio_base64)>>}
    ELSE IF audio_base64 = MalformedAudio THEN {<<>>}
    ELSE {<<text>> : text \in WhisperTexts}

\* process_session is called with is_audio: it transcribes, and with a text
\* it extracts and runs up to the load inside encode
ProcessAudioSessionStart(s, agent_id, audio_base64, model_loaded) ==
    /\ sessions[s].pc = "idle"
    /\ \E r \in TranscribeResults(audio_base64, model_loaded) :
          sessions' = [sessions EXCEPT ![s] =
              IF r = <<>>
              THEN [@ EXCEPT !.pc = "failed", !.agent_id = agent_id,
                             !.audio = <<audio_base64>>]
              ELSE [@ EXCEPT !.pc = "load", !.agent_id = agent_id,
                             !.audio = <<audio_base64>>, !.text = r[1]]]
    /\ api_ret' = NoCall
    /\ UNCHANGED <<core_memory, semantic_memory, clock, direct_writes>>
    /\ UNCHANGED consolidate_vars
    /\ UNCHANGED nightly

\* the load returns; encode merges and core_memory.write takes the hash and
\* the time, then awaits the INSERT
EncodeLoad(s) ==
    /\ sessions[s].pc = "load"
    /\ \E existing \in LoadResults(core_memory, sessions[s].agent_id),
          now \in Now(clock) :
          /\ clock' = now
          /\ sessions' = [sessions EXCEPT ![s] =
                [@ EXCEPT !.pc = "insert",
                          !.calls = Append(@, "load"),
                          !.loaded = IF existing = None THEN 0 ELSE existing[1].id,
                          !.pending = <<EncodeValues(sessions[s].agent_id, ExpertId,
                                                     Extract(sessions[s].text),
                                                     existing, now)>>]]
    /\ api_ret' = NoCall
    /\ UNCHANGED <<core_memory, semantic_memory, direct_writes>>
    /\ UNCHANGED consolidate_vars
    /\ UNCHANGED nightly

\* the INSERT is executed and core_memory.write returns the version hash
EncodeWrite(s) ==
    /\ sessions[s].pc = "insert"
    /\ core_memory' = InsertRow(core_memory, sessions[s].pending[1])
    /\ sessions' = [sessions EXCEPT ![s] =
          [@ EXCEPT !.pc = "index",
                    !.calls = Append(@, "write"),
                    !.pending = <<>>,
                    !.version_hash = <<sessions[s].pending[1].training_version>>]]
    /\ api_ret' = NoCall
    /\ UNCHANGED <<semantic_memory, clock, direct_writes>>
    /\ UNCHANGED consolidate_vars
    /\ UNCHANGED nightly

\* semantic_memory.write stores the transcript and process_session returns
SemanticWrite(s) ==
    /\ sessions[s].pc = "index"
    /\ semantic_memory' = Append(semantic_memory,
          [agent_id |-> sessions[s].agent_id,
           content |-> sessions[s].text,
           metadata |-> IndexMetadata(ExpertId, sessions[s].version_hash[1]),
           owner |-> "expert"])
    /\ sessions' = [sessions EXCEPT ![s] =
          [@ EXCEPT !.pc = "done", !.calls = Append(@, "index")]]
    /\ api_ret' = NoCall
    /\ UNCHANGED <<core_memory, clock, direct_writes>>
    /\ UNCHANGED consolidate_vars
    /\ UNCHANGED nightly

\* the SELECT of core_memory.load fails: the exception leaves encode and
\* process_session
LoadFails(s) ==
    /\ sessions[s].pc = "load"
    /\ sessions' = [sessions EXCEPT ![s] = AfterStoreFailure(@, "load")]
    /\ api_ret' = NoCall
    /\ UNCHANGED <<core_memory, semantic_memory, clock, direct_writes>>
    /\ UNCHANGED consolidate_vars
    /\ UNCHANGED nightly

\* the INSERT of core_memory.write fails and stores no row: the exception
\* leaves write, encode and process_session
WriteFails(s) ==
    /\ sessions[s].pc = "insert"
    /\ sessions' = [sessions EXCEPT ![s] = AfterStoreFailure(@, "write")]
    /\ api_ret' = NoCall
    /\ UNCHANGED <<core_memory, semantic_memory, clock, direct_writes>>
    /\ UNCHANGED consolidate_vars
    /\ UNCHANGED nightly

\* the INSERT of semantic_memory.write fails: the exception leaves
\* process_session, the version written before stays
SemanticWriteFails(s) ==
    /\ sessions[s].pc = "index"
    /\ sessions' = [sessions EXCEPT ![s] = AfterStoreFailure(@, "index")]
    /\ api_ret' = NoCall
    /\ UNCHANGED <<core_memory, semantic_memory, clock, direct_writes>>
    /\ UNCHANGED consolidate_vars
    /\ UNCHANGED nightly

----------------------------------------------------------------------------
(* CoreMemory called through the API *)

\* the profiles a caller hands to write: one content in both key orders of
\* judgment_json, and a second content
DirectJudgments ==
    { JudgmentJson(<<>>, NoDigest),
      [keys |-> <<"source_transcript_hash", "patterns">>,
       items |-> [patterns |-> <<>>, source_transcript_hash |-> NoDigest]],
      JudgmentJson(ExtractPatterns(<<PatternSentence>>), NoDigest) }

Write(agent_id, judgment_json) ==
    /\ Len(direct_writes) < MaxDirectWrites
    /\ direct_writes' = Append(direct_writes, judgment_json)
    /\ \E now \in Now(clock) :
          LET values == WriteValues(agent_id, ExpertId, judgment_json,
                                    <<>>, <<>>, DefaultConfidenceMap, now)
          IN  /\ clock' = now
              /\ core_memory' = InsertRow(core_memory, values)
              /\ api_ret' = <<"write", agent_id, <<values.training_version>>>>
    /\ UNCHANGED <<semantic_memory, sessions>>
    /\ UNCHANGED consolidate_vars
    /\ UNCHANGED nightly

Load(agent_id) ==
    /\ \E r \in LoadResults(core_memory, agent_id) :
          api_ret' = <<"load", agent_id, r>>
    /\ UNCHANGED <<core_memory, semantic_memory, clock, sessions, direct_writes>>
    /\ UNCHANGED consolidate_vars
    /\ UNCHANGED nightly

GetVersion(agent_id) ==
    /\ \E r \in GetVersionResults(core_memory, agent_id) :
          api_ret' = <<"get_version", agent_id, r>>
    /\ UNCHANGED <<core_memory, semantic_memory, clock, sessions, direct_writes>>
    /\ UNCHANGED consolidate_vars
    /\ UNCHANGED nightly

----------------------------------------------------------------------------
(* EnvelopeBuilder (retrieval/envelope_builder.py) *)

\* the confidenceMap build gives an agent that has not been trained (the
\* descriptions are left out, as in DefaultConfidenceMap)
UntrainedConfidenceMap ==
    << [min |-> 0, max |-> 30, action |-> "escalate"],
       [min |-> 30, max |-> 70, action |-> "slow_down"],
       [min |-> 70, max |-> 100, action |-> "act"] >>

\* the expert_judgment of EnvelopeBuilder.build, given what load returned
ExpertJudgment(cm) ==
    IF cm = None
    THEN [expertId |-> "", version |-> <<"untrained">>, patterns |-> <<>>,
          escalationTriggers |-> <<>>, hardConstraints |-> <<>>,
          confidenceMap |-> UntrainedConfidenceMap]
    ELSE [expertId |-> Get(cm[1], "expert_id", ""),
          version |-> Get(cm[1], "training_version", ""),
          patterns |->
              LET judgment_json == Get(cm[1], "judgment_json", EmptyDict)
              IN  IF "patterns" \in Range(judgment_json.keys)
                  THEN judgment_json.items["patterns"] ELSE <<>>,
          escalationTriggers |-> Get(cm[1], "escalation_triggers", <<>>),
          hardConstraints |-> Get(cm[1], "hard_constraints", <<>>),
          confidenceMap |-> Get(cm[1], "confidence_map", <<>>)]

\* EnvelopeBuilder.build, as far as the expert judgment (the memories and
\* the org context are left out)
EnvelopeBuild(agent_id) ==
    /\ \E cm \in LoadResults(core_memory, agent_id) :
          api_ret' = <<"envelope_build", agent_id, <<cm, ExpertJudgment(cm)>>>>
    /\ UNCHANGED <<core_memory, semantic_memory, clock, sessions, direct_writes>>
    /\ UNCHANGED consolidate_vars
    /\ UNCHANGED nightly

----------------------------------------------------------------------------
(* Consolidator (memory/consolidator.py) and /consolidation/run *)

\* a float that is a quotient of counts is the pair <<numerator, denominator>>;
\* a float rounded to three places is counted in thousandths. With counts up
\* to MaxCount no quotient lies within a rounding error of a boundary that
\* round(x, 3) or the comparison with 0.30 draws, so the integers are exact.
Ratio(n, d) == <<n, d>>

\* round(x, 3) of the quotient q, in thousandths
Round3(q) == (2000 * q[1] + q[2]) \div (2 * q[2])

\* sentiments of episodic_memory rows, in hundredths
Sentiments == {-50, -20, 0, 50, 80}

\* the rows the episodic_memory query returns, newest first
EpisodeRows == SeqUpTo([sentiment : Sentiments], MaxEpisodes)

\* the rows a SELECT COUNT(*) telemetry query returns
CountRows == {<<>>} \cup {<<[count |-> n]>> : n \in 0..MaxCount}

\* Consolidator.run_consolidation, given the rows its query returned
RunConsolidation(agent_id, rows) ==
    IF Len(rows) = 0
    THEN [agent_id |-> agent_id, episodes_reviewed |-> 0, patterns_found |-> 0,
          drift_detected |-> FALSE, memories_pruned |-> 0, episodes |-> <<>>]
    ELSE [agent_id |-> agent_id, episodes_reviewed |-> Len(rows), patterns_found |-> 0,
          drift_detected |-> FALSE, memories_pruned |-> 0,
          episodes |-> [i \in DOMAIN rows |->
                           [sentiment |-> Get(rows[i], "sentiment", 0)]]]

\* rows[0].get("count", 0) if rows else 0
CountOf(rows) == IF rows # <<>> THEN Get(rows[1], "count", 0) ELSE 0

\* a rate that divides by 1 when there are no tasks, which C18_ZeroActivity
\* tells from the code
EscalationRateUnguarded(escalation_count, task_count) ==
    Ratio(escalation_count, IF task_count > 0 THEN task_count ELSE 1)

\* escalation_count / task_count if task_count > 0 else 0.0
EscalationRate(escalation_count, task_count) ==
    IF task_count > 0 THEN Ratio(escalation_count, task_count) ELSE Ratio(0, 1)

\* drift_threshold = 0.30, as the quotient 3/10
DriftThreshold == Ratio(3, 10)

\* a test with >= in place of >, which C19_DriftThreshold tells from the code
DriftDetectedAtThreshold(escalation_rate) ==
    escalation_rate[1] * DriftThreshold[2] >= DriftThreshold[1] * escalation_rate[2]

\* escalation_rate > drift_threshold
DriftDetected(escalation_rate) ==
    escalation_rate[1] * DriftThreshold[2] > DriftThreshold[1] * escalation_rate[2]

\* a score without the min, which C30_DriftReportConsistent tells from the code
DriftScoreUncapped(escalation_rate) ==
    IF DriftThreshold[1] > 0
    THEN Ratio(escalation_rate[1] * DriftThreshold[2],
               escalation_rate[2] * DriftThreshold[1])
    ELSE Ratio(0, 1)

\* min(1.0, escalation_rate / drift_threshold) if drift_threshold > 0 else 0.0
DriftScore(escalation_rate) ==
    IF DriftThreshold[1] > 0
    THEN LET q == Ratio(escalation_rate[1] * DriftThreshold[2],
                        escalation_rate[2] * DriftThreshold[1])
         IN  IF q[1] >= q[2] THEN Ratio(1, 1) ELSE q
    ELSE Ratio(0, 1)

\* Consolidator.detect_drift, given the rows its two queries returned (the
\* details string is left out)
DetectDrift(agent_id, escalation_rows, task_rows) ==
    LET escalation_count == CountOf(escalation_rows)
        task_count == CountOf(task_rows)
        escalation_rate == EscalationRate(escalation_count, task_count)
    IN  [agent_id |-> agent_id,
         drift_score |-> Round3(DriftScore(escalation_rate)),
         drift_detected |-> DriftDetected(escalation_rate),
         escalation_rate |-> Round3(escalation_rate),
         escalation_count |-> escalation_count,
         task_count |-> task_count]

\* sum(1 for ep in episodes if ...) for the two tests of generate_morning_note
CountPositive(episodes) ==
    Cardinality({i \in DOMAIN episodes : Get(episodes[i], "sentiment", 0) > 50})
CountNegative(episodes) ==
    Cardinality({i \in DOMAIN episodes : Get(episodes[i], "sentiment", 0) < -20})

\* ", ".join(sentiment_parts), as the pieces of the string
RECURSIVE JoinComma(_)
JoinComma(parts) ==
    IF Len(parts) = 0 THEN <<>>
    ELSE IF Len(parts) = 1 THEN parts[1]
    ELSE parts[1] \o <<", ">> \o JoinComma(Tail(parts))

\* f"{x:.2f}" of a float given in thousandths
Format2f(x) ==
    LET h == (x + 5) \div 10
    IN  <<ToString(h \div 100), ".", ToString((h % 100) \div 10), ToString(h % 10)>>

\* f"{x:.1%}" of a float given in thousandths
FormatPercent1(x) == <<ToString(x \div 10), ".", ToString(x % 10), "%">>

\* the sentence appended when patterns_found > 0
PatternsSentence(patterns_found) ==
    IF patterns_found > 0
    THEN <<" I identified ", ToString(patterns_found),
           " recurring patterns worth noting.">>
    ELSE <<>>

\* a note that closes with both sentences when drift is detected, which
\* C22_ClosingSentences tells from the code
DriftSentenceBoth(drift_detected, drift_score, escalation_rate) ==
    (IF drift_detected
     THEN <<" (!) Behavioral drift detected (score: ">>
          \o Format2f(drift_score) \o <<", escalation rate: ">>
          \o FormatPercent1(escalation_rate)
          \o <<"). ", "I recommend reviewing my recent decisions.">>
     ELSE <<>>)
    \o <<" All systems operating within trained parameters.">>

\* the closing sentence: the drift warning or the all-clear
DriftSentence(drift_detected, drift_score, escalation_rate) ==
    IF drift_detected
    THEN <<" (!) Behavioral drift detected (score: ">>
         \o Format2f(drift_score) \o <<", escalation rate: ">>
         \o FormatPercent1(escalation_rate)
         \o <<"). ", "I recommend reviewing my recent decisions.">>
    ELSE <<" All systems operating within trained parameters.">>

\* Consolidator.generate_morning_note: the note as the pieces of its text
\* (the dash of the quiet-day sentence is written "-", the warning sign "(!)")
GenerateMorningNote(agent_id, consolidation_result, drift_result) ==
    LET episodes_reviewed == Get(consolidation_result, "episodes_reviewed", 0)
        patterns_found == Get(consolidation_result, "patterns_found", 0)
        drift_detected == Get(drift_result, "drift_detected", FALSE)
        drift_score == Get(drift_result, "drift_score", 0)
        escalation_rate == Get(drift_result, "escalation_rate", 0)
        episodes == Get(consolidation_result, "episodes", <<>>)
        positive == CountPositive(episodes)
        negative == CountNegative(episodes)
        neutral == episodes_reviewed - positive - negative
        sentiment_parts ==
            (IF positive > 0 THEN <<<<ToString(positive), " positive">>>> ELSE <<>>)
            \o (IF negative > 0 THEN <<<<ToString(negative), " challenging">>>> ELSE <<>>)
            \o (IF neutral > 0 THEN <<<<ToString(neutral), " routine">>>> ELSE <<>>)
    IN  IF episodes_reviewed = 0
        THEN <<"Good morning. Agent ", agent_id, " had a quiet day yesterday - ",
               "no tasks were processed. Ready for today's assignments.">>
        ELSE <<"Good morning. Yesterday I processed ", ToString(episodes_reviewed),
               " sessions">>
             \o (IF positive > 0 \/ negative > 0
                 THEN <<" (">> \o JoinComma(sentiment_parts) \o <<")">>
                 ELSE <<>>)
             \o <<".">>
             \o PatternsSentence(patterns_found)
             \o DriftSentence(drift_detected, drift_score, escalation_rate)

\* the ConsolidationResponse the endpoint returns
ConsolidationResponse(agent_id, consolidation_result, drift_result, morning_note) ==
    [agent_id |-> agent_id,
     episodes_reviewed |-> Get(consolidation_result, "episodes_reviewed", 0),
     patterns_found |-> Get(consolidation_result, "patterns_found", 0),
     drift_detected |-> Get(drift_result, "drift_detected", FALSE),
     drift_score |-> Get(drift_result, "drift_score", 0),
     memories_pruned |-> Get(consolidation_result, "memories_pruned", 0),
     morning_note |-> morning_note]

\* generate_morning_note called by a caller of its own, with a consolidation
\* result and a drift report
GenerateNoteCall(agent_id, consolidation_result, drift_result) ==
    /\ note_call = <<>>
    /\ note_call' = <<[agent_id |-> agent_id,
                       consolidation_result |-> consolidation_result,
                       drift_result |-> drift_result,
                       note |-> GenerateMorningNote(agent_id, consolidation_result,
                                                    drift_result)]>>
    /\ UNCHANGED <<heap, existing_judgment, new_extraction, result, encoder_merged, contradiction_calls>>
    /\ UNCHANGED service_vars
    /\ UNCHANGED nightly

IdleNightly ==
    [pc |-> "idle", agent_id |-> "", consolidation_result |-> <<>>,
     telemetry |-> <<>>, drift_result |-> <<>>, response |-> <<>>]

\* the request arrives and consolidator.run_consolidation returns
NightlyRunConsolidation(agent_id, rows) ==
    /\ nightly.pc = "idle"
    /\ nightly' = [nightly EXCEPT !.pc = "drift", !.agent_id = agent_id,
                       !.consolidation_result = <<RunConsolidation(agent_id, rows)>>]
    /\ UNCHANGED consolidate_vars
    /\ UNCHANGED service_vars

\* consolidator.detect_drift returns
NightlyDetectDrift(escalation_rows, task_rows) ==
    /\ nightly.pc = "drift"
    /\ nightly' = [nightly EXCEPT !.pc = "note",
                       !.telemetry = <<escalation_rows, task_rows>>,
                       !.drift_result =
                           <<DetectDrift(nightly.agent_id, escalation_rows, task_rows)>>]
    /\ UNCHANGED consolidate_vars
    /\ UNCHANGED service_vars

\* consolidator.generate_morning_note returns and the endpoint responds
NightlyRespond ==
    /\ nightly.pc = "note"
    /\ nightly' = [nightly EXCEPT !.pc = "done",
          !.response = <<ConsolidationResponse(
                             nightly.agent_id, nightly.consolidation_result[1],
                             nightly.drift_result[1],
                             GenerateMorningNote(nightly.agent_id,
                                                 nightly.consolidation_result[1],
                                                 nightly.drift_result[1]))>>]
    /\ UNCHANGED consolidate_vars
    /\ UNCHANGED service_vars

----------------------------------------------------------------------------
(* Specifications *)

InitService ==
    /\ core_memory = <<>>
    /\ semantic_memory = <<>>
    /\ clock = 0
    /\ sessions = [s \in SessionIds |-> IdleSession]
    /\ direct_writes = <<>>
    /\ api_ret = NoCall
    /\ nightly = IdleNightly

\* no consolidator call is under way
InitNoCall ==
    /\ heap = <<>>
    /\ existing_judgment = [patterns |-> <<>>, hard_constraints |-> <<>>,
                            escalation_triggers |-> <<>>]
    /\ new_extraction = [patterns |-> <<>>, constraints |-> <<>>, triggers |-> <<>>]
    /\ result = NoResult
    /\ encoder_merged = NoResult
    /\ contradiction_calls = <<>>
    /\ note_call = <<>>

Init == InitService /\ InitNoCall

\* training sessions, and readers of the core memory
Next ==
    \/ \E s \in SessionIds, a \in Agents, t \in Transcripts : ProcessSessionStart(s, a, t)
    \/ \E s \in SessionIds : EncodeLoad(s)
    \/ \E s \in SessionIds : EncodeWrite(s)
    \/ \E s \in SessionIds : SemanticWrite(s)
    \/ \E s \in SessionIds : LoadFails(s)
    \/ \E s \in SessionIds : WriteFails(s)
    \/ \E s \in SessionIds : SemanticWriteFails(s)
    \/ \E a \in Agents : Load(a)
    \/ \E a \in Agents : GetVersion(a)

Spec == Init /\ [][Next]_vars

\* the core memory alone, called through the API
NextStore ==
    \/ \E a \in Agents, j \in DirectJudgments : Write(a, j)
    \/ \E a \in Agents : Load(a)
    \/ \E a \in Agents : GetVersion(a)
    \/ \E a \in Agents : EnvelopeBuild(a)

SpecStore == Init /\ [][NextStore]_vars

\* a session with audio next to a session with a text transcript
NextAudio ==
    \/ \E a \in Agents, audio \in Audios, model_loaded \in BOOLEAN :
          ProcessAudioSessionStart("s1", a, audio, model_loaded)
    \/ \E a \in Agents, t \in Transcripts : ProcessSessionStart("s2", a, t)
    \/ \E s \in SessionIds : EncodeLoad(s)
    \/ \E s \in SessionIds : EncodeWrite(s)
    \/ \E s \in SessionIds : SemanticWrite(s)

SpecAudio == Init /\ [][NextAudio]_vars

\* one nightly consolidation request
NextNightly ==
    \/ \E a \in Agents, rows \in EpisodeRows : NightlyRunConsolidation(a, rows)
    \/ \E escalation_rows \in CountRows, task_rows \in CountRows :
          NightlyDetectDrift(escalation_rows, task_rows)
    \/ NightlyRespond

SpecNightly == Init /\ [][NextNightly]_vars

\* the consolidation results and drift reports handed to generate_morning_note
ConsolidationResults ==
    {[RunConsolidation(a, rows) EXCEPT !.patterns_found = n] :
        a \in Agents, rows \in EpisodeRows, n \in 0..MaxPatternsFound}
DriftReports(agent_id) ==
    {DetectDrift(agent_id, <<[count |-> e]>>, <<[count |-> t]>>) :
        e \in 0..MaxCount, t \in 0..MaxCount}

\* one generate_morning_note call
NextNote ==
    /\ note_call = <<>>
    /\ \E c \in ConsolidationResults :
           \E d \in DriftReports(c.agent_id) :
               GenerateNoteCall(c.agent_id, c, d)

SpecNote == Init /\ [][NextNote]_vars

----------------------------------------------------------------------------
(* Inputs of a consolidator call *)

ExistingPatternValues ==
    { [id |-> "pat_1", name |-> "Foo", description |-> <<"d1">>, confidence |-> 50],
      [id |-> "pat_2", name |-> "foo", description |-> <<"d1">>, confidence |-> 95],
      [id |-> "pat_1", name |-> "Bar", description |-> <<"d1">>] }

DraftPatternValues ==
    { [id |-> "pat_2", name |-> "foo", description |-> <<"d2">>, confidence |-> 50],
      [id |-> "pat_1", name |-> "Foo", description |-> <<"d3">>, confidence |-> 50],
      [id |-> "pat_1", name |-> "Bar", description |-> <<"d4">>, confidence |-> 50] }

ConstraintValues ==
    { [id |-> "con_1", rule |-> "Never X", category |-> "security", critical |-> TRUE],
      [id |-> "con_2", rule |-> "never x", category |-> "operational", critical |-> FALSE],
      [id |-> "con_1", rule |-> "Stop Y", category |-> "legal", critical |-> TRUE] }

TriggerValues ==
    { [id |-> "trg_1", description |-> "Call Me", action |-> "escalate"],
      [id |-> "trg_2", description |-> "call me", action |-> "pause"],
      [id |-> "trg_1", description |-> "Pause Z", action |-> "abort"] }

\* lists of patterns, constraints and triggers with at most n entries in total
Entries(P, n) ==
    { e \in SeqUpTo(P, n) \X SeqUpTo(ConstraintValues, n) \X SeqUpTo(TriggerValues, n) :
        Len(e[1]) + Len(e[2]) + Len(e[3]) <= n }

Refs(from, n) == [i \in 1..n |-> from + i]

InitConsolidate ==
    \E e \in Entries(ExistingPatternValues, MaxExisting),
       d \in Entries(DraftPatternValues, MaxDraft),
       em \in {<<>>, <<TrainedConfidenceMap>>},
       dm \in {<<>>, <<DefaultConfidenceMap>>} :
        /\ heap = e[1] \o d[1]
        /\ existing_judgment =
              LET base == [patterns |-> Refs(0, Len(e[1])),
                           hard_constraints |-> e[2],
                           escalation_triggers |-> e[3]]
              IN  IF em = <<>> THEN base ELSE SetItem(base, "confidence_map", em[1])
        /\ new_extraction =
              LET base == [patterns |-> Refs(Len(e[1]), Len(d[1])),
                           constraints |-> d[2],
                           triggers |-> d[3]]
              IN  IF dm = <<>> THEN base ELSE SetItem(base, "confidence_map", dm[1])
        /\ result = NoResult
        /\ encoder_merged = NoResult
        /\ contradiction_calls = <<>>
        /\ note_call = <<>>
        /\ InitService

NextConsolidate ==
    \/ Consolidate
    \/ EncoderMerge
    \/ EncoderFirstTraining

SpecConsolidate == InitConsolidate /\ [][NextConsolidate]_vars

----------------------------------------------------------------------------
(* Properties of the consolidator call and of the encoder merge *)

Returned == result # NoResult
Ret == result[1]
ExistingRefs == existing_judgment.patterns
DraftRefs == new_extraction.patterns

\* the step on which consolidate returns
ConsolidateReturns == result = NoResult /\ result' # NoResult

IsPrefix(s, t) == Len(s) <= Len(t) /\ SubSeq(t, 1, Len(s)) = s

Ids(s) == [i \in DOMAIN s |-> s[i].id]

Injective(s) == \A i, j \in DOMAIN s : s[i] = s[j] => i = j

LowerNames(refs, h) == [i \in DOMAIN refs |-> Lower(h[refs[i]].name)]
LowerRules(s) == [i \in DOMAIN s |-> Lower(s[i].rule)]
LowerDescriptions(s) == [i \in DOMAIN s |-> Lower(s[i].description)]

\* old description followed by one "\nDeepened: " piece per draft description
RECURSIVE DeepenAll(_, _)
DeepenAll(description, drafts) ==
    IF drafts = <<>> THEN description
    ELSE DeepenAll(description \o <<"\nDeepened: ">> \o Head(drafts).description,
                   Tail(drafts))

\* the draft patterns (by value) whose lower-cased name is n, in draft order
DraftsNamed(n, h) == SelectSeq(Deref(DraftRefs, h), LAMBDA p : Lower(p.name) = n)

\* existing entry i is the last existing pattern with its lower-cased name
LastOfName(i, h) ==
    \A j \in DOMAIN ExistingRefs :
        Lower(h[ExistingRefs[j]].name) = Lower(h[ExistingRefs[i]].name) => j <= i

\* C3: consolidate has no side effects on its inputs: after the call the
\* existing profile (every pattern's description and confidence included) and
\* the draft equal their values before the call.
C3_ConsolidateHasNoSideEffects ==
    [][ConsolidateReturns =>
          /\ existing_judgment' = existing_judgment
          /\ new_extraction' = new_extraction
          /\ Deref(ExistingRefs, heap') = Deref(ExistingRefs, heap)
          /\ Deref(DraftRefs, heap') = Deref(DraftRefs, heap)]_vars

\* C4 as stated: every draft pattern whose lower-cased name equals that of an
\* existing pattern leaves that pattern, at its position and with its id, with
\* description = old + "\nDeepened: " + draft description and confidence
\* min(1.0, old + 0.1), and is not added itself.
C4_DeepeningAsStated ==
    [][ConsolidateReturns =>
          \A i \in DOMAIN ExistingRefs, k \in DOMAIN DraftRefs :
              Lower(heap[DraftRefs[k]].name) = Lower(heap[ExistingRefs[i]].name) =>
                  LET old == heap[ExistingRefs[i]]
                      new == heap'[ExistingRefs[i]]
                  IN  /\ result'[1].patterns[i] = ExistingRefs[i]
                      /\ new.id = old.id
                      /\ new.description =
                            old.description \o <<"\nDeepened: ">>
                                \o heap[DraftRefs[k]].description
                      /\ new.confidence =
                            Min(ConfidenceCap,
                                Get(old, "confidence", DefaultConfidence) + DeepenStep)
                      /\ DraftRefs[k] \notin Range(result'[1].patterns)]_vars

\* C4 (amended): every existing pattern keeps its position, id and name; the
\* last existing pattern with a given lower-cased name gets one
\* "\nDeepened: " + description piece per draft pattern of that name, in draft
\* order, and its confidence (0.5 when absent) raised by 0.1 per such draft
\* pattern, capped at 1.0; every other existing pattern is unchanged; no
\* matching draft pattern is added as an entry.
C4_Deepening ==
    [][ConsolidateReturns =>
          /\ \A i \in DOMAIN ExistingRefs :
                LET old == heap[ExistingRefs[i]]
                    new == heap'[ExistingRefs[i]]
                    drafts == DraftsNamed(Lower(old.name), heap)
                IN  /\ result'[1].patterns[i] = ExistingRefs[i]
                    /\ new.id = old.id
                    /\ new.name = old.name
                    /\ IF LastOfName(i, heap) /\ drafts # <<>>
                       THEN /\ new.description = DeepenAll(old.description, drafts)
                            /\ new.confidence =
                                  Min(ConfidenceCap,
                                      Get(old, "confidence", DefaultConfidence)
                                          + DeepenStep * Len(drafts))
                       ELSE new = old
          /\ \A k \in DOMAIN DraftRefs :
                (\E i \in DOMAIN ExistingRefs :
                    Lower(heap[DraftRefs[k]].name) = Lower(heap[ExistingRefs[i]].name))
                => DraftRefs[k] \notin Range(result'[1].patterns)]_vars

\* the documented example: existing {Foo, 0.5, "d1"} and draft {foo, "d2"}
\* give one pattern with confidence 0.6 and both descriptions
C4_Witness ==
    /\ Returned
    /\ Len(ExistingRefs) = 1
    /\ Len(DraftRefs) = 1
    /\ Len(Ret.patterns) = 1
    /\ heap[Ret.patterns[1]] =
          [id |-> "pat_1", name |-> "Foo",
           description |-> <<"d1", "\nDeepened: ", "d2">>, confidence |-> 60]

C6_MergeKeepsExisting ==
    /\ Returned =>
          /\ IsPrefix(ExistingRefs, Ret.patterns)
          /\ IsPrefix(existing_judgment.hard_constraints, Ret.hard_constraints)
          /\ IsPrefix(existing_judgment.escalation_triggers, Ret.escalation_triggers)
    /\ (encoder_merged # NoResult /\ ~Returned) =>
          /\ IsPrefix(Deref(ExistingRefs, heap), encoder_merged[1].patterns)
          /\ IsPrefix(existing_judgment.hard_constraints, encoder_merged[1].constraints)
          /\ IsPrefix(existing_judgment.escalation_triggers, encoder_merged[1].triggers)

C6_Witness ==
    /\ encoder_merged # NoResult
    /\ ~Returned
    /\ Len(ExistingRefs) >= 1
    /\ Len(existing_judgment.hard_constraints) >= 1
    /\ Len(encoder_merged[1].patterns) > Len(ExistingRefs)

\* C7: with pairwise distinct lower-cased rules (descriptions) in the existing
\* profile, the result has no two constraints with the same lower-cased rule
\* and no two triggers with the same lower-cased description, for every draft.
C7_NoDuplicateRulesOrDescriptions ==
    (/\ Returned
     /\ Injective(LowerRules(existing_judgment.hard_constraints))
     /\ Injective(LowerDescriptions(existing_judgment.escalation_triggers)))
    => /\ Injective(LowerRules(Ret.hard_constraints))
       /\ Injective(LowerDescriptions(Ret.escalation_triggers))

\* every draft entry matches an entry of the existing profile
DraftFullyMatches(h) ==
    /\ \A k \in DOMAIN DraftRefs :
          Lower(h[DraftRefs[k]].name) \in Range(LowerNames(ExistingRefs, h))
    /\ \A k \in DOMAIN new_extraction.constraints :
          Lower(new_extraction.constraints[k].rule)
              \in Range(LowerRules(existing_judgment.hard_constraints))
    /\ \A k \in DOMAIN new_extraction.triggers :
          Lower(new_extraction.triggers[k].description)
              \in Range(LowerDescriptions(existing_judgment.escalation_triggers))

ExistingIdsUnique(h) ==
    /\ Injective(Ids(Deref(ExistingRefs, h)))
    /\ Injective(Ids(existing_judgment.hard_constraints))
    /\ Injective(Ids(existing_judgment.escalation_triggers))

\* C8 as stated: on a fully matching draft the result has the entries of P,
\* no duplicate ids, and differs from P only in the deepened patterns (so its
\* constraints, triggers and confidence map are those of P). Read in the
\* claim's favour: P has unique ids and a confidence map, the draft a pattern.
C8_IdempotentAsStated ==
    (/\ Returned
     /\ DraftFullyMatches(heap)
     /\ ExistingIdsUnique(heap)
     /\ "confidence_map" \in DOMAIN existing_judgment
     /\ Len(DraftRefs) >= 1) =>
        /\ Ret.patterns = ExistingRefs
        /\ Injective(Ids(Deref(Ret.patterns, heap)))
        /\ Ret.hard_constraints = existing_judgment.hard_constraints
        /\ Ret.escalation_triggers = existing_judgment.escalation_triggers
        /\ Ret.confidence_map = Get(existing_judgment, "confidence_map", <<>>)

\* C8 (amended): on a fully matching draft the result has the patterns,
\* constraints and triggers of P (same entries, same ids, same order), the
\* constraints and triggers are equal to P's, each pattern is P's pattern or P's
\* pattern deepened by the draft patterns of its name, and the confidence map
\* is the draft's when the draft supplies one and P's otherwise.
C8_IdempotentMerge ==
    [][(ConsolidateReturns /\ DraftFullyMatches(heap)) =>
          /\ result'[1].patterns = ExistingRefs
          /\ Ids(Deref(ExistingRefs, heap')) = Ids(Deref(ExistingRefs, heap))
          /\ result'[1].hard_constraints = existing_judgment.hard_constraints
          /\ result'[1].escalation_triggers = existing_judgment.escalation_triggers
          /\ \A i \in DOMAIN ExistingRefs :
                LET old == heap[ExistingRefs[i]]
                    new == heap'[ExistingRefs[i]]
                    drafts == DraftsNamed(Lower(old.name), heap)
                IN  \/ new = old
                    \/ /\ drafts # <<>>
                       /\ new = SetItem([old EXCEPT !.description = DeepenAll(@, drafts)],
                                        "confidence",
                                        Min(ConfidenceCap,
                                            Get(old, "confidence", DefaultConfidence)
                                                + DeepenStep * Len(drafts)))
          /\ result'[1].confidence_map =
                IF "confidence_map" \in DOMAIN new_extraction
                THEN new_extraction.confidence_map
                ELSE Get(existing_judgment, "confidence_map", <<>>)]_vars

C8_Witness ==
    /\ Returned
    /\ DraftFullyMatches(heap)
    /\ Len(DraftRefs) >= 1
    /\ Len(new_extraction.constraints) >= 1
    /\ Len(Ret.patterns) = Len(ExistingRefs)
    /\ Len(Ret.hard_constraints) = Len(existing_judgment.hard_constraints)

\* C10: the merged confidence map is the draft's map, whole, when the draft
\* supplies one, and the existing profile's map when it does not, for
\* consolidate and for the encoder's merge alike.
C10_ConfidenceMapOverride ==
    LET expected == IF "confidence_map" \in DOMAIN new_extraction
                    THEN new_extraction.confidence_map
                    ELSE Get(existing_judgment, "confidence_map", <<>>)
    IN  /\ Returned => Ret.confidence_map = expected
        /\ encoder_merged # NoResult => encoder_merged[1].confidence_map = expected

C10_Witness ==
    /\ Returned
    /\ encoder_merged # NoResult
    /\ "confidence_map" \in DOMAIN existing_judgment
    /\ existing_judgment.confidence_map = TrainedConfidenceMap
    /\ "confidence_map" \in DOMAIN new_extraction
    /\ Ret.confidence_map = DefaultConfidenceMap
    /\ encoder_merged[1].confidence_map = DefaultConfidenceMap

\* C11: first training: with no existing profile the merged profile is the
\* draft's patterns, constraints and triggers, with the draft's confidence map,
\* or with the default three-range map when the draft supplies none.
C11_FirstTraining ==
    [][EncoderFirstTraining =>
          /\ encoder_merged'[1].patterns = Deref(DraftRefs, heap)
          /\ encoder_merged'[1].constraints = new_extraction.constraints
          /\ encoder_merged'[1].triggers = new_extraction.triggers
          /\ encoder_merged'[1].confidence_map =
                Get(new_extraction, "confidence_map", DefaultConfidenceMap)]_vars

\* C12: every consolidation calls the contradiction detection once, on the
\* merged patterns and the merged constraints; its findings are returned as
\* review_required, which is the empty list, next to the four merged parts.
C12_ContradictionDetection ==
    Returned =>
        /\ contradiction_calls =
              <<[patterns |-> Ret.patterns, constraints |-> Ret.hard_constraints]>>
        /\ Ret.review_required =
              FindUnresolvedContradictions(Ret.patterns, Ret.hard_constraints)
        /\ Ret.review_required = <<>>
        /\ DOMAIN Ret = {"patterns", "hard_constraints", "escalation_triggers",
                         "confidence_map", "review_required"}

\* a consolidation that deepened a pattern and added a constraint
C12_Witness ==
    /\ Returned
    /\ Len(ExistingRefs) >= 1
    /\ Len(DraftRefs) >= 1
    /\ Len(Ret.patterns) = Len(ExistingRefs)
    /\ Len(Ret.hard_constraints) > Len(existing_judgment.hard_constraints)
    /\ Len(contradiction_calls) = 1
    /\ Ret.review_required = <<>>

----------------------------------------------------------------------------
(* Properties of the core memory and of the training pipeline *)

\* what the version hash of a stored row is taken of
Content(row) ==
    <<row.judgment_json.items, row.hard_constraints,
      row.escalation_triggers, row.confidence_map>>

\* C1: write is deterministic in content: any two stored records with the same
\* content, whatever the key order they were written with, the times of the
\* writes and the writes in between, carry the same version hash and are two
\* distinct records; write returns the hash of the record it stored.
C1_WriteDeterministic ==
    /\ \A i, j \in DOMAIN core_memory :
          Content(core_memory[i]) = Content(core_memory[j]) =>
              /\ core_memory[i].training_version = core_memory[j].training_version
              /\ i # j => core_memory[i].id # core_memory[j].id
    /\ api_ret[1] = "write" =>
          /\ core_memory # <<>>
          /\ api_ret[3] = <<core_memory[Len(core_memory)].training_version>>
          /\ api_ret[2] = core_memory[Len(core_memory)].agent_id

\* the same content written twice at different times with another content
\* written in between
C1_Witness ==
    /\ api_ret[1] = "write"
    /\ Len(core_memory) = 3
    /\ Content(core_memory[1]) = Content(core_memory[3])
    /\ Content(core_memory[2]) # Content(core_memory[1])
    /\ core_memory[1].created_at < core_memory[3].created_at
    /\ core_memory[1].training_version = core_memory[3].training_version
    /\ core_memory[2].training_version # core_memory[1].training_version

\* the step on which the INSERT of session s is executed
WriteStep(s) == sessions[s].pc = "insert" /\ sessions'[s].pc = "index"

\* C2: the core memory is append-only: every step leaves every stored record
\* in place and unchanged; the write of a training session adds exactly one
\* record, for the agent of that session; a step that is no write (a load, a
\* get_version, any other step of a session) leaves the table as it is.
C2_AppendOnly ==
    [][/\ IsPrefix(core_memory, core_memory')
       /\ \A s \in SessionIds :
             WriteStep(s) =>
                 /\ Len(core_memory') = Len(core_memory) + 1
                 /\ core_memory'[Len(core_memory')].agent_id = sessions[s].agent_id
       /\ (\A s \in SessionIds : ~WriteStep(s)) => core_memory' = core_memory]_vars

\* two versions stored for one agent, and a get_version answered for it
C2_Witness ==
    /\ Len(core_memory) = 2
    /\ core_memory[1].agent_id = core_memory[2].agent_id
    /\ core_memory[1].training_version # core_memory[2].training_version
    /\ api_ret[1] = "get_version"
    /\ api_ret[2] = core_memory[1].agent_id

\* C9: ids are unique within each mapping of every stored profile: no two
\* patterns, no two constraints and no two triggers of a version share an id.
C9_IdsUnique ==
    \A i \in DOMAIN core_memory :
        /\ Injective(Ids(core_memory[i].judgment_json.items.patterns))
        /\ Injective(Ids(core_memory[i].hard_constraints))
        /\ Injective(Ids(core_memory[i].escalation_triggers))

\* TrainingConsolidator._consolidate_patterns applied to lists given by value
ConsolidatePatternsByValue(existing, new) ==
    LET c == ConsolidatePatterns(Refs(0, Len(existing)), Refs(Len(existing), Len(new)),
                                 existing \o new)
    IN  Deref(c.merged, c.heap)

\* C13: in the training pipeline, a draft merged into a stored profile goes
\* through the consolidator: the patterns of the version about to be written
\* are those _consolidate_patterns gives (a draft pattern with an existing
\* name deepens that pattern and is not appended), and the contradiction
\* detection has run before the write.
C13_PipelineConsolidates ==
    \A s \in SessionIds :
        (sessions[s].pc = "insert" /\ sessions[s].loaded # 0) =>
            /\ sessions[s].pending[1].judgment_json.items.patterns =
                  ConsolidatePatternsByValue(
                      core_memory[sessions[s].loaded].judgment_json.items.patterns,
                      ExtractPatterns(sessions[s].text))
            /\ contradiction_calls # <<>>

\* the parts of a stored profile: patterns, constraints, triggers, confidence map
Profile(row) ==
    <<row.judgment_json.items.patterns, row.hard_constraints,
      row.escalation_triggers, row.confidence_map>>

\* C14: the version hash depends only on the patterns, constraints, triggers
\* and confidence map: two versions written by training sessions with equal
\* profiles have the same hash, whatever the transcripts were.
C14_HashOfProfileOnly ==
    \A i, j \in DOMAIN core_memory :
        Profile(core_memory[i]) = Profile(core_memory[j]) =>
            core_memory[i].training_version = core_memory[j].training_version

\* C15: the version hash is independent of key order: two write calls whose
\* judgment_json have the same items, in whatever key order, store the same
\* version hash.
C15_HashIgnoresKeyOrder ==
    \A i, j \in DOMAIN direct_writes :
        (i \in DOMAIN core_memory /\ j \in DOMAIN core_memory
            /\ direct_writes[i].items = direct_writes[j].items) =>
                core_memory[i].training_version = core_memory[j].training_version

\* the same content written in two key orders
C15_Witness ==
    /\ Len(direct_writes) >= 2
    /\ Len(core_memory) = Len(direct_writes)
    /\ direct_writes[1].items = direct_writes[2].items
    /\ direct_writes[1].keys # direct_writes[2].keys
    /\ core_memory[1].training_version = core_memory[2].training_version

\* the stored records of an agent
RowsOf(agent_id) == {i \in DOMAIN core_memory : core_memory[i].agent_id = agent_id}

\* record i has the greatest created_at of its agent's records
HasMaxCreatedAt(i) ==
    \A j \in RowsOf(core_memory[i].agent_id) :
        core_memory[j].created_at <= core_memory[i].created_at

\* C16: load returns None exactly when the agent has no stored record, and
\* otherwise the content of a record of that agent with the maximum
\* created_at, which is the last one written when the write times strictly
\* increase; get_version returns None in the same case and otherwise the
\* version hash of a record with the maximum created_at.
C16_LoadReturnsLatest ==
    /\ api_ret[1] = "load" =>
          /\ api_ret[3] = None <=> RowsOf(api_ret[2]) = {}
          /\ api_ret[3] # None =>
                \E i \in RowsOf(api_ret[2]) :
                    /\ HasMaxCreatedAt(i)
                    /\ api_ret[3] = <<core_memory[i]>>
                    /\ (\A j \in RowsOf(api_ret[2]) \ {i} :
                           core_memory[j].created_at < core_memory[i].created_at)
                       => \A j \in RowsOf(api_ret[2]) : j <= i
    /\ api_ret[1] = "get_version" =>
          /\ api_ret[3] = None <=> RowsOf(api_ret[2]) = {}
          /\ api_ret[3] # None =>
                \E i \in RowsOf(api_ret[2]) :
                    /\ HasMaxCreatedAt(i)
                    /\ api_ret[3] = <<core_memory[i].training_version>>

\* a load that returns the later of two different versions of one agent while
\* the other agent has none
C16_Witness ==
    /\ api_ret[1] = "load"
    /\ api_ret[3] # None
    /\ \E i, j \in RowsOf(api_ret[2]) :
          /\ core_memory[i].created_at < core_memory[j].created_at
          /\ core_memory[i].training_version # core_memory[j].training_version
          /\ api_ret[3] = <<core_memory[j]>>
    /\ \E a \in Agents : RowsOf(a) = {}

\* C17: every stored version record has locked_at equal to created_at.
C17_LockedAtCreation ==
    \A i \in DOMAIN core_memory : core_memory[i].locked_at = core_memory[i].created_at

\* two versions written at different times
C17_Witness ==
    /\ Len(core_memory) = 2
    /\ core_memory[1].created_at # core_memory[2].created_at
    /\ core_memory[1].locked_at = core_memory[1].created_at
    /\ core_memory[2].locked_at = core_memory[2].created_at

----------------------------------------------------------------------------
(* Properties of the nightly consolidation *)

DriftReturned == nightly.drift_result # <<>>
Drift == nightly.drift_result[1]

\* C18: zero-activity guard: with a task count of 0, whatever the escalation
\* count and also when a telemetry query returns no rows, detect_drift
\* returns escalation_rate 0.0, drift_score 0 and drift_detected false.
C18_ZeroActivity ==
    (DriftReturned /\ (nightly.telemetry[2] = <<>> \/ Drift.task_count = 0)) =>
        /\ Drift.task_count = 0
        /\ Drift.escalation_rate = 0
        /\ Drift.drift_score = 0
        /\ Drift.drift_detected = FALSE

\* escalations counted, no row for the tasks
C18_Witness ==
    /\ DriftReturned
    /\ nightly.telemetry[2] = <<>>
    /\ Drift.escalation_count = 4
    /\ Drift.task_count = 0
    /\ Drift.drift_score = 0

\* min(1.0, (escalation_count / task_count) / 0.30) in thousandths, times 3 * task_count
ScoreTimes3Tasks(escalation_count, task_count) ==
    1000 * Min(3 * task_count, 10 * escalation_count)

\* C19 as stated: with task_count > 0, drift_detected holds exactly when
\* escalation_count / task_count > 0.30, and drift_score is
\* min(1.0, (escalation_count / task_count) / 0.30).
C19_DriftScoreAsStated ==
    (DriftReturned /\ Drift.task_count > 0) =>
        /\ Drift.drift_detected <=> 10 * Drift.escalation_count > 3 * Drift.task_count
        /\ Drift.drift_score * 3 * Drift.task_count =
              ScoreTimes3Tasks(Drift.escalation_count, Drift.task_count)

\* C19 (amended): with task_count > 0, drift_detected holds exactly when
\* escalation_count / task_count > 0.30 (3 of 10 is no drift), and drift_score
\* is min(1.0, (escalation_count / task_count) / 0.30) rounded to three
\* decimal places; 4 of 10 gives drift_detected and drift_score 1.0.
C19_DriftThreshold ==
    (DriftReturned /\ Drift.task_count > 0) =>
        LET d == Drift.drift_score * 3 * Drift.task_count
                    - ScoreTimes3Tasks(Drift.escalation_count, Drift.task_count)
        IN  /\ Drift.drift_detected <=>
                  10 * Drift.escalation_count > 3 * Drift.task_count
            /\ 2 * d <= 3 * Drift.task_count
            /\ -2 * d <= 3 * Drift.task_count
            /\ (Drift.escalation_count = 4 /\ Drift.task_count = 10) =>
                  (Drift.drift_detected /\ Drift.drift_score = 1000)
            /\ (Drift.escalation_count = 3 /\ Drift.task_count = 10) =>
                  ~Drift.drift_detected

\* 4 escalations in 10 tasks
C19_Witness ==
    /\ DriftReturned
    /\ Drift.escalation_count = 4
    /\ Drift.task_count = 10
    /\ Drift.drift_detected
    /\ Drift.drift_score = 1000

\* C20: quiet day: with no episodic events in the trailing 24 hours the
\* response has episodes_reviewed, patterns_found and memories_pruned 0,
\* drift_detected false and drift_score 0, whatever the telemetry is, and its
\* morning note is the quiet-day sentence naming the agent.
C20_QuietDay ==
    (nightly.response # <<>> /\ nightly.consolidation_result[1].episodes = <<>>) =>
        /\ nightly.response[1].episodes_reviewed = 0
        /\ nightly.response[1].patterns_found = 0
        /\ nightly.response[1].memories_pruned = 0
        /\ nightly.response[1].drift_detected = FALSE
        /\ nightly.response[1].drift_score = 0
        /\ nightly.response[1].morning_note =
              <<"Good morning. Agent ", nightly.agent_id, " had a quiet day yesterday - ",
                "no tasks were processed. Ready for today's assignments.">>

\* ---------------------------------------------------------------------------
\* Properties of the morning note
\* ---------------------------------------------------------------------------

\* the three sentiment buckets of a list of episodes, in the order of the note
SentimentBuckets(episodes) ==
    LET positive == Cardinality({i \in DOMAIN episodes : episodes[i].sentiment > 50})
        negative == Cardinality({i \in DOMAIN episodes : episodes[i].sentiment < -20})
    IN  <<[count |-> positive, label |-> " positive"],
          [count |-> negative, label |-> " challenging"],
          [count |-> Len(episodes) - positive - negative, label |-> " routine"]>>
NonzeroBucket(bucket) == bucket.count > 0

\* "<count> <label>" of each bucket, joined by ", "
RECURSIVE ListBuckets(_)
ListBuckets(buckets) ==
    IF buckets = <<>> THEN <<>>
    ELSE <<ToString(Head(buckets).count), Head(buckets).label>>
         \o (IF Len(buckets) > 1 THEN <<", ">> ELSE <<>>)
         \o ListBuckets(Tail(buckets))

\* the parenthetical listing the nonzero buckets
StatedParenthetical(episodes) ==
    LET nonzero == SelectSeq(SentimentBuckets(episodes), NonzeroBucket)
    IN  IF nonzero = <<>> THEN <<>>
        ELSE <<" (">> \o ListBuckets(nonzero) \o <<")">>

\* C21: for every non-empty list of reviewed episodes the note carries, right
\* after "... N sessions", the parenthetical listing exactly the nonzero
\* buckets among positive, challenging and routine, and so carries one also
\* when all the episodes are neutral.
C21_SentimentParenthetical ==
    (nightly.response # <<>> /\ nightly.consolidation_result[1].episodes # <<>>) =>
        LET note == nightly.response[1].morning_note
            stated == StatedParenthetical(nightly.consolidation_result[1].episodes)
        IN  /\ stated # <<>>
            /\ Len(note) >= 4 + Len(stated)
            /\ SubSeq(note, 4, 4 + Len(stated)) = stated \o <<".">>

NoteCalled == note_call # <<>>
NoteCall == note_call[1]
Occurrences(note, piece) == Cardinality({i \in DOMAIN note : note[i] = piece})
FollowedBy(note, piece, rest) ==
    \E i \in DOMAIN note :
        /\ note[i] = piece
        /\ i + Len(rest) <= Len(note)
        /\ SubSeq(note, i + 1, i + Len(rest)) = rest

\* C22: a note about at least one reviewed episode closes with exactly one of
\* the two closing sentences: the drift warning, carrying the drift score and
\* the escalation rate, when the drift report says drift was detected, and
\* the sentence about trained parameters when it does not; the sentence about
\* recurring patterns is there exactly when patterns_found > 0.
C22_ClosingSentences ==
    (NoteCalled /\ NoteCall.consolidation_result.episodes_reviewed >= 1) =>
        LET note == NoteCall.note
            drift == NoteCall.drift_result
            found == NoteCall.consolidation_result.patterns_found
            warnings == Occurrences(note, " (!) Behavioral drift detected (score: ")
            allclears == Occurrences(note, " All systems operating within trained parameters.")
            patterns == Occurrences(note, " I identified ")
        IN  /\ warnings + allclears = 1
            /\ (warnings = 1) <=> drift.drift_detected
            /\ drift.drift_detected =>
                  FollowedBy(note, " (!) Behavioral drift detected (score: ",
                             Format2f(drift.drift_score) \o <<", escalation rate: ">>
                             \o FormatPercent1(drift.escalation_rate))
            /\ (patterns = 1) <=> (found > 0)
            /\ (patterns = 0) <=> (found = 0)
            /\ found > 0 =>
                  FollowedBy(note, " I identified ",
                             <<ToString(found), " recurring patterns worth noting.">>)

C22_Witness ==
    /\ NoteCalled
    /\ NoteCall.consolidation_result.episodes_reviewed >= 1
    /\ NoteCall.consolidation_result.patterns_found > 0
    /\ NoteCall.drift_result.drift_detected
    /\ Occurrences(NoteCall.note, " (!) Behavioral drift detected (score: ") = 1

\* ---------------------------------------------------------------------------
\* Properties of the envelope builder
\* ---------------------------------------------------------------------------

EnvelopeBuilt == api_ret[1] = "envelope_build"
Envelope == api_ret[3][2]

\* C23: for an agent with no stored version load returns None and the
\* envelope builder gives empty patterns, constraints and triggers together
\* with the default map [0,0.3) escalate, [0.3,0.6) slow_down, [0.6,1.0] act,
\* the map a first training stores.
C23_UntrainedProfile ==
    (EnvelopeBuilt /\ RowsOf(api_ret[2]) = {}) =>
        /\ api_ret[3][1] = None
        /\ Envelope.patterns = <<>>
        /\ Envelope.hardConstraints = <<>>
        /\ Envelope.escalationTriggers = <<>>
        /\ Envelope.confidenceMap = DefaultConfidenceMap
        /\ Envelope.confidenceMap = ExtractConfidenceMap(<<>>)

\* ---------------------------------------------------------------------------
\* Properties of concurrent and failing training sessions
\* ---------------------------------------------------------------------------

Wrote(s) == sessions[s].version_hash # <<>>
LoadedBy(s) == IF sessions[s].loaded = 0 THEN None ELSE <<core_memory[sessions[s].loaded]>>
\* the profile session s merges from what it loaded and what it extracted
MergedBy(s) ==
    LET m == EncodeMerge(LoadedBy(s), Extract(sessions[s].text))
    IN  <<m.patterns, m.constraints, m.triggers, m.confidence_map>>
\* the entries extracted from the transcripts of the sessions of an agent
ExtractedFor(agent_id, field) ==
    UNION {Range(Extract(sessions[s].text)[field]) :
              s \in {t \in SessionIds : sessions[t].agent_id = agent_id}}

Failed(s) == sessions[s].pc = "failed"
FailedAt(s) ==
    IF sessions[s].calls = <<>> THEN "transcribe"
    ELSE sessions[s].calls[Len(sessions[s].calls)]

\* C25: a failure of the store during the load or the write of a training
\* session ends process_session with the failure (the session makes no call
\* after the failing one and the write is attempted at most once), the
\* session adds no version record and writes no transcript to the semantic
\* index: the records are those of the sessions whose write returned, the
\* index entries those of the sessions that finished.
C25_StorageFailurePropagates ==
    /\ \A s \in SessionIds :
          (Failed(s) /\ FailedAt(s) \in {"load", "write"}) =>
              /\ sessions[s].calls \in {<<"load">>, <<"load", "write">>}
              /\ ~Wrote(s)
    /\ Len(core_memory) = Cardinality({s \in SessionIds : Wrote(s)})
    /\ Len(semantic_memory) = Cardinality({s \in SessionIds : sessions[s].pc = "done"})
    /\ \A i \in DOMAIN semantic_memory :
          \E s \in SessionIds :
              /\ sessions[s].pc = "done"
              /\ semantic_memory[i].content = sessions[s].text
              /\ semantic_memory[i].agent_id = sessions[s].agent_id

\* one session failed in its write after the other stored and indexed
C25_Witness ==
    /\ Failed("s2") /\ sessions["s2"].calls = <<"load", "write">>
    /\ sessions["s1"].pc = "done"
    /\ Failed("s2") /\ sessions["s2"].agent_id = sessions["s1"].agent_id
    /\ Len(core_memory) = 1 /\ Len(semantic_memory) = 1

\* C29: a successful process_session makes exactly one load, then one version
\* write, then one write to the semantic index, whose metadata carries the
\* hash of the version just written; no session writes to the index before
\* its version write, and a session whose index write fails leaves its new
\* version stored.
C29_IngestionOrder ==
    \A s \in SessionIds :
        /\ sessions[s].pc = "done" =>
              /\ sessions[s].calls = <<"load", "write", "index">>
              /\ \E i \in DOMAIN semantic_memory :
                    /\ semantic_memory[i].content = sessions[s].text
                    /\ semantic_memory[i].agent_id = sessions[s].agent_id
                    /\ semantic_memory[i].metadata.training_version =
                          sessions[s].version_hash[1]
        /\ "index" \in Range(sessions[s].calls) =>
              /\ sessions[s].calls = <<"load", "write", "index">>
              /\ Wrote(s)
        /\ Wrote(s) =>
              \E i \in RowsOf(sessions[s].agent_id) :
                  core_memory[i].training_version = sessions[s].version_hash[1]
        /\ (Failed(s) /\ FailedAt(s) = "index") =>
              /\ Len(core_memory) = Cardinality({t \in SessionIds : Wrote(t)})
              /\ \E i \in RowsOf(sessions[s].agent_id) :
                    /\ core_memory[i].training_version = sessions[s].version_hash[1]
                    /\ Profile(core_memory[i]) = MergedBy(s)

\* a session finished and another one's index write failed after its version
\* was stored
C29_Witness ==
    /\ sessions["s1"].pc = "done"
    /\ sessions["s1"].calls = <<"load", "write", "index">>
    /\ Failed("s2") /\ FailedAt("s2") = "index"
    /\ Len(core_memory) = 2 /\ Len(semantic_memory) = 1

\* C26: a training session whose audio is malformed base64 fails before
\* extraction and merge run, whether or not a Whisper model is loaded: it
\* makes no call on the store or the index and writes no version.
C26_InvalidAudioRejected ==
    \A s \in SessionIds :
        sessions[s].audio = <<MalformedAudio>> =>
            /\ Failed(s)
            /\ sessions[s].calls = <<>>
            /\ ~Wrote(s)

\* ---------------------------------------------------------------------------
\* Pattern confidence
\* ---------------------------------------------------------------------------

\* every pattern of the profile and of the draft has a confidence in [0,1]
ConfidencesInRange(h) ==
    \A r \in DOMAIN h : "confidence" \in DOMAIN h[r] /\ h[r].confidence \in 0..ConfidenceCap

\* c raised by min(1.0, c + 0.1), k times
RECURSIVE RaisedTimes(_, _)
RaisedTimes(c, k) ==
    IF k = 0 THEN c ELSE RaisedTimes(Min(ConfidenceCap, c + DeepenStep), k - 1)

\* C27: if every pattern of the profile and of the draft has a confidence in
\* [0,1], a consolidation leaves every pattern of the resulting profile with
\* a confidence in [0,1] (so any sequence of consolidations does), no
\* existing pattern's confidence decreases, and the pattern the k draft
\* patterns of one name are matched to (the last existing one of that name)
\* is raised by min(1.0, c + 0.1) k times.
C27_ConfidenceInRange ==
    [][(ConsolidateReturns /\ ConfidencesInRange(heap)) =>
          /\ \A k \in DOMAIN result'[1].patterns :
                LET p == heap'[result'[1].patterns[k]]
                IN  "confidence" \in DOMAIN p /\ p.confidence \in 0..ConfidenceCap
          /\ ConfidencesInRange(heap')
          /\ \A i \in DOMAIN ExistingRefs :
                LET old == heap[ExistingRefs[i]]
                    new == heap'[ExistingRefs[i]]
                IN  /\ new.confidence >= old.confidence
                    /\ LastOfName(i, heap) =>
                          new.confidence =
                              RaisedTimes(old.confidence,
                                          Len(DraftsNamed(Lower(old.name), heap)))]_vars

\* a pattern at 0.95 matched by two draft patterns ends at 1.0, next to one
\* at 0.5 that no draft pattern matched
C27_Witness ==
    /\ Returned
    /\ Len(Ret.patterns) = 2
    /\ Len(DraftRefs) = 2
    /\ \A r \in DOMAIN heap : "confidence" \in DOMAIN heap[r]
    /\ heap[Ret.patterns[1]].confidence = DefaultConfidence
    /\ heap[Ret.patterns[2]].confidence = ConfidenceCap
    /\ Len(heap[Ret.patterns[2]].description) = 5

\* ---------------------------------------------------------------------------
\* Re-submitting a transcript
\* ---------------------------------------------------------------------------

\* session t ingests the transcript of session s again, for the same agent,
\* on top of the version s wrote
Resubmits(t, s) ==
    /\ t # s
    /\ Wrote(s)
    /\ sessions[t].agent_id = sessions[s].agent_id
    /\ sessions[t].text = sessions[s].text
    /\ sessions[t].loaded # 0
    /\ core_memory[sessions[t].loaded].training_version = sessions[s].version_hash[1]

\* C28: a training session that ingests the transcript the preceding session
\* of the agent ingested adds no pattern, constraint or trigger, returns the
\* version hash the first one returned, and appends a second record with
\* that hash.
C28_ResubmissionAddsNothing ==
    \A s, t \in SessionIds :
        Resubmits(t, s) =>
            /\ sessions[t].pc = "insert" =>
                  /\ Profile(sessions[t].pending[1]) =
                        Profile(core_memory[sessions[t].loaded])
                  /\ sessions[t].pending[1].training_version =
                        sessions[s].version_hash[1]
            /\ Wrote(t) =>
                  /\ sessions[t].version_hash = sessions[s].version_hash
                  /\ Len(core_memory) = 2
                  /\ Profile(core_memory[2]) = Profile(core_memory[1])
                  /\ core_memory[2].training_version = core_memory[1].training_version
                  /\ core_memory[2].training_version = sessions[t].version_hash[1]

\* a transcript with a pattern and a constraint was ingested twice
C28_Witness ==
    /\ Resubmits("s2", "s1")
    /\ Wrote("s2")
    /\ sessions["s1"].text = <<PatternSentence, ConstraintSentence>>
    /\ Len(core_memory) = 2
    /\ Len(core_memory[2].judgment_json.items.patterns) = 1
    /\ Len(core_memory[2].hard_constraints) = 1

\* ---------------------------------------------------------------------------
\* Consistency of the drift report
\* ---------------------------------------------------------------------------

\* C30: for all counts the drift score lies in [0,1], also when there are
\* more escalations than tasks, and a report with drift detected has the
\* score 1.0; the converse fails: a rate of exactly 0.30 gives the score 1.0
\* without drift detected (the witness).
C30_DriftReportConsistent ==
    DriftReturned =>
        /\ Drift.drift_score \in 0..1000
        /\ Drift.drift_detected => Drift.drift_score = 1000
        /\ (Drift.task_count > 0 /\ Drift.escalation_count > Drift.task_count) =>
              /\ Drift.escalation_rate > 1000
              /\ Drift.drift_detected
              /\ Drift.drift_score = 1000

\* 3 escalations in 10 tasks: the score is 1.0 and no drift is detected
C30_Witness ==
    /\ DriftReturned
    /\ Drift.escalation_count = 3
    /\ Drift.task_count = 10
    /\ Drift.escalation_rate = 300
    /\ Drift.drift_score = 1000
    /\ ~Drift.drift_detected

====
